---- MODULE Spec2Model ----
(***************************************************************************)
(* A model of BaseError (src/src/BaseError.ts, first class, lines 38-360): *)
(* construction across hosts of different capability, the user-message     *)
(* annex, message resolution, serialisation and stack capture.             *)
(*                                                                         *)
(* JavaScript values are records tagged by "t".  A string that the code    *)
(* splits into lines and searches (a stack) is a "text": a sequence of     *)
(* lines, each a sequence of text atoms, so that split, includes and join  *)
(* are computed.                                                           *)
(***************************************************************************)
EXTENDS Integers, Sequences, FiniteSets

\* ------------------------------------------------------------------ bounds
\* First value of the ambient clock (epoch ms); one below a minute boundary,
\* so that a tick changes several ISO fields.
ClockStart == 59999
\* Largest number of ms the clock may advance in total.
MaxElapsed == 1
\* Largest number of ms the clock may advance between two reads.
MaxTick == 1

\* ------------------------------------------------------------- JS values
Undefined == [t |-> "undefined"]
Null == [t |-> "null"]
Str(s) == [t |-> "string", v |-> s]
\* A string kept as its lines (what split("\n") gives, what join("\n") takes).
Text(lines) == [t |-> "text", lines |-> lines]
This(id) == [t |-> "this", id |-> id]
JsError(name, message, stack, cause) ==
    [t |-> "error", name |-> name, message |-> message, stack |-> stack,
     cause |-> cause]

Num(n) == [t |-> "number", n |-> n]
NaN == [t |-> "NaN"]
Bool(b) == [t |-> "boolean", b |-> b]

\* An object that is not an Error: where it lives (ref), the name of its
\* constructor (NoConstructor for Object.create(null)), its own enumerable
\* properties in creation order (an array's keys are "0", "1", ...), and
\* whether it has a toJSON method that throws.
NoConstructor == "no constructor"
Prop(k, v) == [k |-> k, v |-> v]
Obj(ref, ctor, props) ==
    [t |-> "obj", ref |-> ref, ctor |-> ctor, props |-> props,
     toJSONThrows |-> FALSE]
\* A property value that is the enclosing object ref: a circular reference.
Ref(ref) == [t |-> "ref", ref |-> ref]
\* What a call raises instead of returning: a TypeError, a RangeError, ...
Thrown(name) == [t |-> "thrown", name |-> name]

\* JavaScript ToBoolean on the values of this model.
Truthy(v) ==
    CASE v.t = "undefined" -> FALSE
      [] v.t = "null" -> FALSE
      [] v.t = "string" -> v.v # ""
      [] v.t = "text" -> v.lines # << <<>> >>
      [] v.t = "number" -> v.n # 0
      [] v.t = "NaN" -> FALSE
      [] v.t = "boolean" -> v.b
      [] OTHER -> TRUE

\* ------------------------------------------------------------ class chain
ErrorCtor == "class Error"
BaseErrorCtor == "class BaseError"
\* A subtype declared directly below BaseError (README.md).
UserNotFoundErrorCtor == "class UserNotFoundError"
\* Subtypes one, two and three levels below BaseError
\* (examples/error-handling.ts).
AppErrorCtor == "class AppError"
NetworkErrorCtor == "class NetworkError"
TimeoutErrorCtor == "class TimeoutError"

Classes ==
    {ErrorCtor, BaseErrorCtor, UserNotFoundErrorCtor, AppErrorCtor, NetworkErrorCtor,
     TimeoutErrorCtor}

\* `class X extends Y`: the prototype of X.prototype is Y.prototype.
NoParent == "null prototype"
Extends(c) ==
    CASE c = TimeoutErrorCtor -> NetworkErrorCtor
      [] c = NetworkErrorCtor -> AppErrorCtor
      [] c = AppErrorCtor -> BaseErrorCtor
      [] c = UserNotFoundErrorCtor -> BaseErrorCtor
      [] c = BaseErrorCtor -> ErrorCtor
      [] OTHER -> NoParent

\* C.name: the name under which the class is declared.
ConstructorName(c) ==
    CASE c = ErrorCtor -> "Error"
      [] c = BaseErrorCtor -> "BaseError"
      [] c = UserNotFoundErrorCtor -> "UserNotFoundError"
      [] c = AppErrorCtor -> "AppError"
      [] c = NetworkErrorCtor -> "NetworkError"
      [] c = TimeoutErrorCtor -> "TimeoutError"

\* The classes whose prototype is on the prototype chain that starts at c.prototype.
RECURSIVE PrototypeChain(_)
PrototypeChain(c) ==
    IF c = NoParent THEN {} ELSE {c} \cup PrototypeChain(Extends(c))

\* `x instanceof C` for an object x whose prototype is proto.prototype.
InstanceOf(proto, C) == C \in PrototypeChain(proto)

\* The classes a caller can construct with `new`.
Constructable == Classes \ {ErrorCtor}

\* ------------------------------------------------------------------ hosts
\* The capabilities of the host the program runs in.
\*   defineProperty    Object.defineProperty(this, "cause", ...) is accepted
\*   captureStackTrace typeof Error.captureStackTrace === "function"
\*   thrownStack       a thrown `new Error()` carries a stack string
\*   nativeCause       #hasNativeCauseSupport() answers true
\*   nativeClasses     super() returns an object already linked to new.target
\*                     (false: compiled-down classes, where Error(...) returns
\*                     an object linked to Error.prototype)
Hosts ==
    [defineProperty : BOOLEAN, captureStackTrace : BOOLEAN, thrownStack : BOOLEAN,
     nativeCause : BOOLEAN, nativeClasses : BOOLEAN]

ModernHost ==
    [defineProperty |-> TRUE, captureStackTrace |-> TRUE, thrownStack |-> TRUE,
     nativeCause |-> TRUE, nativeClasses |-> TRUE]

\* ----------------------------------------------------------------- inputs
Entities == {"e1"}
NoEntity == [t |-> "unconstructed"]

Messages == {"User 42 not found"}
\* A technical message that quotes the name of the capture routine.
QuotingMessage == "lost in #captureStack"
AllMessages == Messages \cup {QuotingMessage}
RootCause ==
    JsError("Error", "Root cause", Text(<< <<"Error", ": ", "Root cause">> >>),
            Undefined)
Causes == {Undefined, Null, Str(""), RootCause}

\* Language tags and texts the callers use; the empty string is a string too.
Langs == {"", "en", "en-US"}
Texts == {"a", "b"}
UserTexts == {"", "D"}
FewCauses == {Undefined, RootCause}

VARIABLES
    host,            \* the host's capabilities
    stackTraceLimit, \* the host-global Error.stackTraceLimit
    clock,           \* the ambient clock, epoch ms
    ent,             \* the entities: Entities -> NoEntity or the object's fields
    ret,             \* the last call and how it ended: [op, id, args, kind, val]
    lastWrite,       \* per entity, language -> text of the last successful write
    kept,            \* a record toJSON() returned, as the caller that kept it holds it
    building         \* the constructions in progress, the innermost first

vars == <<host, stackTraceLimit, clock, ent, ret, lastWrite, kept, building>>

\* ------------------------------------------------------------- the clock
\* Date.prototype.toISOString: the instant as calendar fields (the date as the
\* day number since the epoch), each field what the formatter prints.
toISOString(ms) ==
    [day |-> ms \div 86400000,
     hour |-> (ms \div 3600000) % 24,
     minute |-> (ms \div 60000) % 60,
     second |-> (ms \div 1000) % 60,
     millisecond |-> ms % 1000]

\* ------------------------------------------------------------ stack text
\* A line of a stack is a sequence of text atoms, cut where the markers of
\* the filter begin and end.

\* The atoms of a message.
Atoms(message) ==
    IF message = QuotingMessage THEN <<"lost in ", "#", "captureStack">>
    ELSE <<message>>

\* line.includes(marker)
Includes(line, marker) ==
    \E i \in 1..Len(line) :
        /\ i + Len(marker) - 1 <= Len(line)
        /\ SubSeq(line, i, i + Len(marker) - 1) = marker

CaptureStackFrame ==
    <<"    at ", "BaseError", ".", "#", "captureStack", " (BaseError.js:307:13)">>
ConstructorFrame(c) ==
    <<"    at ", "new ", ConstructorName(c), " (", ConstructorName(c), ".js:1:1)">>
CallerFrames ==
    << <<"    at ", "loadUser", " (app.js:10:9)">>,
       <<"    at ", "main", " (app.js:20:3)">> >>

\* The constructors that run, innermost first, when newTarget is constructed.
RECURSIVE ConstructorChain(_)
ConstructorChain(c) ==
    IF c = BaseErrorCtor THEN <<c>>
    ELSE ConstructorChain(Extends(c)) \o <<c>>

ConstructorFrames(c) ==
    [i \in 1..Len(ConstructorChain(c)) |-> ConstructorFrame(ConstructorChain(c)[i])]

\* The first `limit` frames: the host keeps Error.stackTraceLimit frames.
Limited(frames, limit) ==
    SubSeq(frames, 1, IF limit < Len(frames) THEN limit ELSE Len(frames))

\* The header the host prints for an error: Error.prototype.toString.
HostHeader(name, message) ==
    IF message = "" THEN <<name>> ELSE <<name, ": ">> \o Atoms(message)

\* Error.captureStackTrace(self, constructorOpt): the frames above the
\* outermost constructor call, under the host's own header.
HostCaptureStackTrace(self, limit) ==
    Text(<<HostHeader(self.name, self.message)>> \o Limited(CallerFrames, limit))

\* The stack the host attaches to `new Error()` thrown inside #captureStack.
HostThrownStack(self, limit) ==
    Text(<<HostHeader("Error", "")>> \o
            Limited(<<CaptureStackFrame>> \o ConstructorFrames(self.proto)
                        \o CallerFrames,
                    limit))

\* BaseError.ts 341-351: the test that skips a line.
IsInternalFrame(line) ==
    \/ Includes(line, <<"#", "captureStack">>)
    \/ Includes(line, <<"#", "filterInternalFrames">>)
    \/ Includes(line, <<"BaseError", ".", "constructor">>)
    \/ Includes(line, <<"new ", "BaseError">>)
    \/ Includes(line, <<"captureStack", "_fn">>)
    \/ Includes(line, <<"filterInternalFrames", "_fn">>)
    \/ (Includes(line, <<"Object.<anonymous>">>) /\ Includes(line, <<"captureStack">>))

\* The loop of #filterInternalFrames from line i on.
RECURSIVE FilterFrom(_, _)
FilterFrom(lines, i) ==
    IF i > Len(lines) THEN <<>>
    ELSE IF IsInternalFrame(lines[i]) THEN FilterFrom(lines, i + 1)
    ELSE <<lines[i]>> \o FilterFrom(lines, i + 1)

\* The filter with its loop started at the first line of the host's trace.
filterInternalFramesFromFirstLine(self, stack) ==
    IF ~Truthy(stack) THEN Undefined
    ELSE Text(<<<<self.name, ": ">> \o Atoms(self.message)>>
                \o FilterFrom(stack.lines, 1))

\* BaseError.#filterInternalFrames
filterInternalFrames(self, stack) ==
    IF ~Truthy(stack) THEN Undefined
    ELSE Text(<<<<self.name, ": ">> \o Atoms(self.message)>>
                \o FilterFrom(stack.lines, 2))

\* The depth the earlier #captureStack (line 479) asked the host for.
RaisedStackTraceLimit == 20

\* #captureStack as it would be if it raised the host's depth for the capture
\* and did not put the old value back.
captureStackKeepingRaisedLimit(self, h, limit) ==
    IF h.captureStackTrace
    THEN [stack |-> filterInternalFrames(
                        self, HostCaptureStackTrace(self, RaisedStackTraceLimit)),
          stackTraceLimit |-> RaisedStackTraceLimit]
    ELSE LET tempStack == IF h.thrownStack
                          THEN HostThrownStack(self, RaisedStackTraceLimit)
                          ELSE Undefined
         IN [stack |-> IF ~Truthy(tempStack) THEN Undefined
                       ELSE filterInternalFrames(self, tempStack),
             stackTraceLimit |-> RaisedStackTraceLimit]

\* BaseError.#captureStack: [stack, stackTraceLimit] when it returns.
captureStack(self, h, limit) ==
    IF h.captureStackTrace
    THEN [stack |-> filterInternalFrames(self, HostCaptureStackTrace(self, limit)),
          stackTraceLimit |-> limit]
    ELSE LET tempStack == IF h.thrownStack THEN HostThrownStack(self, limit)
                          ELSE Undefined
         IN [stack |-> IF ~Truthy(tempStack) THEN Undefined
                       ELSE filterInternalFrames(self, tempStack),
             stackTraceLimit |-> limit]

\* ------------------------------------------------------------- the cause
\* The own property `cause` of an instance: absent, or its descriptor.
NoProperty == [t |-> "absent"]
Property(value, enumerable) ==
    [t |-> "property", value |-> value, enumerable |-> enumerable,
     configurable |-> TRUE, writable |-> TRUE]

\* Reading this.cause: the own property, or Error.prototype's (it has none).
Cause(self) == IF self.cause = NoProperty THEN Undefined ELSE self.cause.value

\* BaseError.#hasNativeCauseSupport
hasNativeCauseSupport(h) == h.nativeCause

\* Object.defineProperty(this, "cause", {value, configurable, writable,
\* enumerable: false}): [threw, self].
defineProperty(self, h, cause) ==
    IF h.defineProperty
    THEN [threw |-> FALSE, self |-> [self EXCEPT !.cause = Property(cause, FALSE)]]
    ELSE [threw |-> TRUE, self |-> self]

\* this.cause = cause on an instance without the property.
assign(self, cause) ==
    [threw |-> FALSE, self |-> [self EXCEPT !.cause = Property(cause, TRUE)]]

\* The same without the catch: a rejection propagates.
tryDefinePropertyUncaught(self, h, cause) == defineProperty(self, h, cause)

\* try { Object.defineProperty(...) } catch { this.cause = cause }
tryDefineProperty(self, h, cause) ==
    LET defined == defineProperty(self, h, cause)
    IN IF defined.threw THEN assign(self, cause) ELSE defined

\* BaseError.#setCause: [threw, self].
setCause(self, h, cause) ==
    IF hasNativeCauseSupport(h)
    THEN tryDefineProperty(self, h, cause)
    ELSE tryDefineProperty(self, h, cause)

\* ----------------------------------------------------------- construction
EmptyMap == [lang \in {} |-> ""]

\* super(message) and the field initialisers: the object the host's Error
\* constructor returns, with the two clock reads of lines 42 and 45.
superAndFields(newTarget, message, h, now, later) ==
    [proto |-> IF h.nativeClasses THEN newTarget ELSE ErrorCtor,
     name |-> "Error",
     message |-> message,
     timestamp |-> now,
     timestampIso |-> toISOString(later),
     stack |-> Undefined,
     cause |-> NoProperty,
     defaultUserMessage |-> Undefined,
     localizedMessages |-> EmptyMap]

\* this.name = this.constructor.name (line 66): the constructor is found
\* through the prototype the object has at that point.
inferName(self) == [self EXCEPT !.name = ConstructorName(self.proto)]

\* Line 74 left out: the object keeps the prototype super() gave it.
setPrototypeOfSkipped(self, newTarget) == self

\* Object.setPrototypeOf(this, new.target.prototype) (line 74)
setPrototypeOf(self, newTarget) == [self EXCEPT !.proto = newTarget]

\* Lines 69-71 with the test `if (cause)`: a falsy cause is dropped.
attachCauseIfTruthy(self, h, cause) ==
    IF Truthy(cause) THEN setCause(self, h, cause)
    ELSE [threw |-> FALSE, self |-> self]

\* if (cause !== undefined) this.#setCause(cause) (lines 69-71)
attachCause(self, h, cause) ==
    IF cause # Undefined THEN setCause(self, h, cause)
    ELSE [threw |-> FALSE, self |-> self]

\* BaseError.constructor: [threw, self, stackTraceLimit].
constructor(newTarget, message, cause, h, now, later, limit) ==
    LET named == inferName(superAndFields(newTarget, message, h, now, later))
        caused == attachCause(named, h, cause)
        linked == setPrototypeOf(caused.self, newTarget)
        captured == captureStack(linked, h, limit)
    IN IF caused.threw
       THEN [threw |-> TRUE, self |-> NoEntity, stackTraceLimit |-> limit]
       ELSE [threw |-> FALSE,
             self |-> [linked EXCEPT !.stack = captured.stack],
             stackTraceLimit |-> captured.stackTraceLimit]

\* ------------------------------------------------------ user-message annex
\* How a call ends: it returns a value or throws one.
Return(val) == [kind |-> "return", val |-> val]
Throw(val) == [kind |-> "throw", val |-> val]

\* The error addLocalizedMessage throws (lines 105-107).
DuplicateLocalization(lang) ==
    JsError("Error",
            "Localized message for language '" \o lang \o
                "' already exists. Use updateLocalizedMessage() to modify existing messages.",
            Undefined, Undefined)

\* Map.prototype.has, get and set.
MapHas(map, key) == key \in DOMAIN map
MapGet(map, key) == IF key \in DOMAIN map THEN Str(map[key]) ELSE Undefined
\* A set that leaves the map with the one entry written.
MapSetAlone(map, key, value) == [k \in {key} |-> value]

MapSet(map, key, value) ==
    [k \in DOMAIN map \cup {key} |-> IF k = key THEN value ELSE map[k]]

\* withUserMessage writing the technical message instead of the annex.
withUserMessageAsMessage(id, self, message) ==
    [self |-> [self EXCEPT !.message = message], out |-> Return(This(id))]

\* BaseError.withUserMessage: [self, out].
withUserMessage(id, self, message) ==
    [self |-> [self EXCEPT !.defaultUserMessage = Str(message)],
     out |-> Return(This(id))]

\* addLocalizedMessage with the write placed before the duplicate test.
addLocalizedMessageWriteFirst(id, self, lang, message) ==
    IF MapHas(self.localizedMessages, lang)
    THEN [self |-> [self EXCEPT !.localizedMessages = MapSet(@, lang, message)],
          out |-> Throw(DuplicateLocalization(lang))]
    ELSE [self |-> [self EXCEPT !.localizedMessages = MapSet(@, lang, message)],
          out |-> Return(This(id))]

\* BaseError.addLocalizedMessage: [self, out].
addLocalizedMessage(id, self, lang, message) ==
    IF MapHas(self.localizedMessages, lang)
    THEN [self |-> self, out |-> Throw(DuplicateLocalization(lang))]
    ELSE [self |-> [self EXCEPT !.localizedMessages = MapSet(@, lang, message)],
          out |-> Return(This(id))]

\* updateLocalizedMessage declared void: it writes and returns nothing.
updateLocalizedMessageReturningNothing(id, self, lang, message) ==
    [self |-> [self EXCEPT !.localizedMessages = MapSet(@, lang, message)],
     out |-> Return(Undefined)]

\* BaseError.updateLocalizedMessage: [self, out].
updateLocalizedMessage(id, self, lang, message) ==
    [self |-> [self EXCEPT !.localizedMessages = MapSet(@, lang, message)],
     out |-> Return(This(id))]

\* The options argument of getUserMessage: omitted, or an object whose two
\* members are each omitted or a string.
OptionalLang(langs) == {Undefined} \cup {Str(l) : l \in langs}
Options(langs) ==
    {Undefined} \cup
    [t : {"object"}, preferredLang : OptionalLang(langs),
     fallbackLang : OptionalLang(langs)]
NoOptions == [t |-> "object", preferredLang |-> Undefined, fallbackLang |-> Undefined]

\* getUserMessage handing the default message out once: it clears the field.
getUserMessageOnce(self, options) ==
    [self |-> [self EXCEPT !.defaultUserMessage = Undefined],
     out |-> Return(self.defaultUserMessage)]

\* BaseError.getUserMessage: [self, out].
getUserMessage(self, options) ==
    LET opts == IF Truthy(options) THEN options ELSE NoOptions
        preferredLang == opts.preferredLang
        fallbackLang == opts.fallbackLang
    IN [self |-> self,
        out |-> Return(
            IF Truthy(preferredLang) /\ MapHas(self.localizedMessages, preferredLang.v)
            THEN MapGet(self.localizedMessages, preferredLang.v)
            ELSE IF Truthy(fallbackLang)
                    /\ MapHas(self.localizedMessages, fallbackLang.v)
            THEN MapGet(self.localizedMessages, fallbackLang.v)
            ELSE self.defaultUserMessage)]

\* ----------------------------------------------------------- serialisation
\* A key a record does not have.
Absent == [t |-> "absent"]

\* The number of nested calls the host's call stack takes; a call nested
\* deeper raises RangeError (Maximum call stack size exceeded).
MaxCallDepth == 6

\* `v instanceof Error`: a BaseError instance of the heap or another Error.
IsError(v) == v.t = "error" \/ v.t = "this"
\* name, message, stack and cause as read from an Error; an entity is read
\* from the heap as it is now.
ErrorFields(heap, v) ==
    IF v.t = "this"
    THEN JsError(heap[v.id].name, heap[v.id].message, heap[v.id].stack,
                 Cause(heap[v.id]))
    ELSE v

\* Number.prototype.toString for the non-negative integers.
Digit(d) ==
    CASE d = 0 -> "0" [] d = 1 -> "1" [] d = 2 -> "2" [] d = 3 -> "3"
      [] d = 4 -> "4" [] d = 5 -> "5" [] d = 6 -> "6" [] d = 7 -> "7"
      [] d = 8 -> "8" [] d = 9 -> "9"
RECURSIVE Decimal(_)
Decimal(n) == IF n < 10 THEN Digit(n) ELSE Decimal(n \div 10) \o Digit(n % 10)

\* BaseError.toString, JavaScript ToString (the template literal `${v}`) and
\* Array.prototype.join(","), which call one another.  toString gives
\* [self, out]; the other two give Str(s), or Thrown(...) when the
\* conversion raises.
RECURSIVE toString(_, _, _), ToStr(_, _, _), Join(_, _, _, _)

toString(heap, self, depth) ==
    [self |-> self,
     out |->
        IF depth > MaxCallDepth THEN Throw(Thrown("RangeError"))
        ELSE LET cause == Cause(self)
                 head == "[" \o self.name \o "] " \o self.message
             IN IF ~Truthy(cause) THEN Return(Str(head))
                ELSE LET text == ToStr(heap, cause, depth + 1)
                     IN IF text.t = "thrown" THEN Throw(text)
                        ELSE Return(Str(head \o "\nCaused by: " \o text.v))]

ToStr(heap, v, depth) ==
    CASE v.t = "undefined" -> Str("undefined")
      [] v.t = "null" -> Str("null")
      [] v.t = "string" -> v
      [] v.t = "number" -> Str(Decimal(v.n))
      [] v.t = "NaN" -> Str("NaN")
      [] v.t = "boolean" -> Str(IF v.b THEN "true" ELSE "false")
      [] v.t = "error" ->
            \* Error.prototype.toString
            Str(IF v.name = "" THEN v.message
                ELSE IF v.message = "" THEN v.name
                ELSE v.name \o ": " \o v.message)
      [] v.t = "this" -> toString(heap, heap[v.id], depth).out.val
      [] v.t = "obj" ->
            \* Object.create(null) has no toString and no valueOf.
            IF v.ctor = NoConstructor THEN Thrown("TypeError")
            ELSE IF v.ctor = "Array" THEN Join(heap, v.props, 1, depth + 1)
            ELSE Str("[object Object]")

Join(heap, props, i, depth) ==
    IF i > Len(props) THEN Str("")
    ELSE LET item == props[i].v
             head == IF item.t = "undefined" \/ item.t = "null" THEN Str("")
                     ELSE ToStr(heap, item, depth)
             tail == Join(heap, props, i + 1, depth)
         IN IF head.t = "thrown" THEN head
            ELSE IF tail.t = "thrown" THEN tail
            ELSE Str(head.v \o (IF i < Len(props) THEN "," ELSE "") \o tail.v)

\* JSON.stringify, as the syntax tree of the text it writes: JsonNothing
\* when it gives undefined, JsonThrow when it raises TypeError.
JsonNothing == [j |-> "nothing"]
JsonThrow == [j |-> "throw"]
JsonNull == [j |-> "null"]

RECURSIVE SerializeJSONProperty(_), SerializeJSONArray(_, _),
          SerializeJSONObject(_, _)

SerializeJSONProperty(v) ==
    CASE v.t = "undefined" -> JsonNothing
      [] v.t = "null" -> JsonNull
      [] v.t = "NaN" -> JsonNull
      [] v.t = "string" -> [j |-> "string", s |-> v.v]
      [] v.t = "number" -> [j |-> "number", n |-> v.n]
      [] v.t = "boolean" -> [j |-> "boolean", b |-> v.b]
      \* name, message and stack of an Error are not enumerable
      [] v.t = "error" -> [j |-> "object", members |-> <<>>]
      \* a value that is already being written: a circular structure
      [] v.t = "ref" -> JsonThrow
      [] v.t = "obj" ->
            IF v.toJSONThrows THEN JsonThrow
            ELSE IF v.ctor = "Array"
            THEN LET items == SerializeJSONArray(v.props, 1)
                 IN IF items.threw THEN JsonThrow
                    ELSE [j |-> "array", items |-> items.seq]
            ELSE LET members == SerializeJSONObject(v.props, 1)
                 IN IF members.threw THEN JsonThrow
                    ELSE [j |-> "object", members |-> members.seq]

\* The elements of an array from the i-th on: undefined is written as null.
SerializeJSONArray(props, i) ==
    IF i > Len(props) THEN [threw |-> FALSE, seq |-> <<>>]
    ELSE LET head == SerializeJSONProperty(props[i].v)
             tail == SerializeJSONArray(props, i + 1)
         IN IF head = JsonThrow \/ tail.threw THEN [threw |-> TRUE, seq |-> <<>>]
            ELSE [threw |-> FALSE,
                  seq |-> <<IF head = JsonNothing THEN JsonNull ELSE head>>
                            \o tail.seq]

\* The members of an object from the i-th on: undefined is left out.
SerializeJSONObject(props, i) ==
    IF i > Len(props) THEN [threw |-> FALSE, seq |-> <<>>]
    ELSE LET head == SerializeJSONProperty(props[i].v)
             tail == SerializeJSONObject(props, i + 1)
         IN IF head = JsonThrow \/ tail.threw THEN [threw |-> TRUE, seq |-> <<>>]
            ELSE [threw |-> FALSE,
                  seq |-> (IF head = JsonNothing THEN <<>>
                           ELSE <<Prop(props[i].k, head)>>) \o tail.seq]

JSONStringify(v) == SerializeJSONProperty(v)

\* JSON.parse of a text JSON.stringify wrote: every object and array is a
\* new one.
NewRef == "new"
RECURSIVE JSONParse(_)
JSONParse(json) ==
    CASE json.j = "null" -> Null
      [] json.j = "string" -> Str(json.s)
      [] json.j = "number" -> Num(json.n)
      [] json.j = "boolean" -> Bool(json.b)
      [] json.j = "array" ->
            Obj(NewRef, "Array",
                [i \in 1..Len(json.items) |->
                    Prop(Decimal(i - 1), JSONParse(json.items[i]))])
      [] json.j = "object" ->
            Obj(NewRef, "Object",
                [i \in 1..Len(json.members) |->
                    Prop(json.members[i].k, JSONParse(json.members[i].v))])

\* keys.join(", ")
RECURSIVE JoinKeys(_)
JoinKeys(keys) ==
    IF Len(keys) = 0 THEN ""
    ELSE IF Len(keys) = 1 THEN keys[1]
    ELSE keys[1] \o ", " \o JoinKeys(Tail(keys))

\* Object.keys(obj)
ObjectKeys(obj) == [i \in 1..Len(obj.props) |-> obj.props[i].k]
\* Array.prototype.slice(0, n)
Slice(seq, n) == SubSeq(seq, 1, IF n < Len(seq) THEN n ELSE Len(seq))

\* The summary with every key listed and the marker from five keys on.
serializeCircularObjectUnbounded(obj) ==
    LET type == IF obj.ctor = NoConstructor THEN "Object" ELSE obj.ctor
        keys == ObjectKeys(obj)
        keyInfo == IF Len(keys) > 0 THEN " with keys: [" \o JoinKeys(keys) \o "]"
                   ELSE ""
        moreKeys == IF Len(ObjectKeys(obj)) >= 5 THEN "..." ELSE ""
    IN "[Circular " \o type \o keyInfo \o moreKeys \o "]"

\* BaseError.#serializeCircularObject
serializeCircularObject(obj) ==
    LET type == IF obj.ctor = NoConstructor THEN "Object" ELSE obj.ctor
        keys == Slice(ObjectKeys(obj), 5)
        keyInfo == IF Len(keys) > 0 THEN " with keys: [" \o JoinKeys(keys) \o "]"
                   ELSE ""
        moreKeys == IF Len(ObjectKeys(obj)) > 5 THEN "..." ELSE ""
    IN "[Circular " \o type \o keyInfo \o moreKeys \o "]"

\* try { JSON.parse(JSON.stringify(cause)) } catch { summary } (lines 248-255)
roundTrip(cause) ==
    LET text == JSONStringify(cause)
    IN IF text = JsonThrow \/ text = JsonNothing
       THEN Str(serializeCircularObject(cause))
       ELSE JSONParse(text)

\* #serializeCause as toJSON had it before (line 456): an Error is reported
\* as its string form, any other cause as it is.
serializeCauseAsString(heap, cause, depth) ==
    IF cause = Undefined \/ cause = Null THEN cause
    ELSE IF IsError(cause) THEN ToStr(heap, cause, depth)
    ELSE cause

\* BaseError.#serializeCause: the value returned, or Thrown(...) when the
\* recursion exhausts the call stack.
RECURSIVE serializeCause(_, _, _)
serializeCause(heap, cause, depth) ==
    IF depth > MaxCallDepth THEN Thrown("RangeError")
    ELSE IF cause = Undefined \/ cause = Null THEN cause
    ELSE IF IsError(cause)
    THEN LET err == ErrorFields(heap, cause)
             nested == serializeCause(heap, err.cause, depth + 1)
         IN IF nested.t = "thrown" THEN nested
            ELSE [t |-> "object", name |-> err.name, message |-> err.message,
                  stack |-> err.stack, cause |-> nested]
    ELSE IF cause.t = "obj" THEN roundTrip(cause)
    ELSE cause

\* A value that is the entity's own Map, not a copy of it: what reads and
\* writes of it reach is the field of the entity.
ThisLocalizedMessages == [t |-> "this field", field |-> "_localizedMessages"]

\* The entries seen through a value of a record that entity `owner` returned.
EntriesOf(heap, owner, value) ==
    IF value = ThisLocalizedMessages THEN heap[owner].localizedMessages
    ELSE value.entries

\* toJSON handing out the Map of the entity itself.
TheMapItself(map) == ThisLocalizedMessages

\* Object.fromEntries(map): a new object with the entries of the map.
ObjectFromEntries(map) == [t |-> "object", entries |-> map]

\* BaseError.toJSON: [self, out]; a key left out of the record is Absent.
toJSON(heap, self) ==
    LET cause == serializeCause(heap, Cause(self), 1)
    IN [self |-> self,
        out |->
         IF cause.t = "thrown" THEN Throw(cause)
         ELSE Return(
            [t |-> "object",
             name |-> self.name,
             message |-> self.message,
             timestamp |-> self.timestamp,
             timestampIso |-> self.timestampIso,
             stack |-> self.stack,
             cause |-> cause,
             userMessage |-> IF Truthy(self.defaultUserMessage)
                             THEN self.defaultUserMessage ELSE Absent,
             localizedMessages |->
                 IF Cardinality(DOMAIN self.localizedMessages) > 0
                 THEN ObjectFromEntries(self.localizedMessages)
                 ELSE Absent])]

\* ------------------------------------------------------------- the causes
\* Error chains: with the entity on top, one, two and three Errors deep, and
\* chains that end in a primitive or in null.
StackOf(name, message) == Text(<< <<name, ": ", message>> >>)
MidCause == JsError("TypeError", "Lookup failed", StackOf("TypeError", "Lookup failed"), RootCause)
TopCause == JsError("Error", "Request failed", StackOf("Error", "Request failed"), MidCause)
ErrorCauses ==
    {RootCause, MidCause, TopCause,
     JsError("Error", "Write failed", StackOf("Error", "Write failed"), Str("disk full")),
     JsError("Error", "Read failed", Undefined, Null)}

\* Primitive causes, the falsy ones included.
PrimitiveCauses == {Null, Str(""), Str("timeout"), Num(0), Num(42), Bool(FALSE), NaN}

\* Plain acyclic objects: records and arrays, nested, with the values a
\* caller may put in them.
PlainCauses ==
    {Obj("o1", "Object",
         <<Prop("code", Num(42)),
           Prop("detail", Obj("o2", "Object", <<Prop("retry", Bool(TRUE))>>)),
           Prop("tags", Obj("o3", "Array", <<Prop("0", Str("db")), Prop("1", Null)>>))>>),
     Obj("o4", "Array", <<Prop("0", Num(1)), Prop("1", Str("a"))>>),
     Obj("o5", "Object", <<Prop("elapsed", NaN)>>),
     Obj("o6", "Object", <<Prop("user", Undefined)>>),
     Obj("o7", "Array", <<Prop("0", Undefined)>>),
     Obj("o8", NoConstructor, <<Prop("code", Num(1))>>)}

\* Objects whose JSON round trip fails: with n own keys, the first of them a
\* reference to the object itself; without keys, a toJSON method that throws.
MaxKeys == 6
KeyName(i) == "k" \o Digit(i)
Circular(ctor, n) ==
    IF n = 0 THEN [Obj("c0", ctor, <<>>) EXCEPT !.toJSONThrows = TRUE]
    ELSE Obj("c" \o Digit(n), ctor,
             [i \in 1..n |-> IF i = 1 THEN Prop("self", Ref("c" \o Digit(n)))
                             ELSE Prop(KeyName(i), Num(i))])
CircularCauses ==
    {Circular("Object", n) : n \in {0, 1, 5, MaxKeys}}
        \cup {Circular("Connection", 2), Circular(NoConstructor, 1)}
        \cup {Obj("c9", "Object",
                  <<Prop("inner", Obj("c8", "Object", <<Prop("outer", Ref("c9"))>>))>>)}

RichCauses ==
    {Undefined} \cup ErrorCauses \cup PrimitiveCauses \cup PlainCauses
        \cup CircularCauses

\* What a caller may later assign to the writable `cause` of entity e: the
\* entity itself, or an Error whose cause is the entity.
CyclicCauses(e) ==
    {This(e),
     JsError("Error", "Retry failed", StackOf("Error", "Retry failed"), This(e))}

\* ---------------------------------------------------------------- actions
\* The fields a method of entity e writes are those of e alone: they are
\* instance fields (lines 39-52), and each instance has a Map of its own.
\* The write as it would be with the annex fields static: every instance
\* sees the default message and the Map the call wrote.
StoreInEveryInstance(heap, e, self) ==
    [x \in DOMAIN heap |->
        IF x = e THEN self
        ELSE IF heap[x] = NoEntity THEN heap[x]
        ELSE [heap[x] EXCEPT !.defaultUserMessage = self.defaultUserMessage,
                             !.localizedMessages = self.localizedMessages]]

Store(heap, e, self) == [heap EXCEPT ![e] = self]

\* A record no caller holds.
NoRecord == [t |-> "nothing kept"]

Call(op, id, args, out) ==
    [op |-> op, id |-> id, args |-> args, kind |-> out.kind, val |-> out.val]
NoCall == Call("none", "none", <<>>, Return(Undefined))
Class(c) == [t |-> "class", c |-> c]

\* new C(message, cause) for a class C at or below BaseError.  The clock may
\* advance between the two reads the field initialisers make.
Construct(e, classes, messages, causes, ticks) ==
    \E newTarget \in classes, message \in messages, cause \in causes,
       tick \in ticks :
        /\ clock + tick <= ClockStart + MaxElapsed
        /\ \E made \in {constructor(newTarget, message, cause, host, clock,
                                     clock + tick, stackTraceLimit)} :
           /\ clock' = clock + tick
           /\ stackTraceLimit' = made.stackTraceLimit
           /\ ent' = IF made.threw THEN ent ELSE [ent EXCEPT ![e] = made.self]
           /\ lastWrite' = IF made.threw THEN lastWrite
                           ELSE [lastWrite EXCEPT ![e] = EmptyMap]
           /\ ret' = Call("new", e, <<Class(newTarget), Str(message), cause>>,
                          IF made.threw THEN Throw(Str("TypeError"))
                          ELSE Return(This(e)))
           /\ UNCHANGED <<host, kept, building>>

\* The constructions in progress, outermost first.  A frame is one `new C(...)`
\* that has begun and not yet returned: the entity it will be bound to, its
\* class and arguments, the statement it stands before, the object so far,
\* the raw trace once the host has taken it, and Error.stackTraceLimit as it
\* was when the construction began.
Frame(e, newTarget, message, cause, step, self, before) ==
    [e |-> e, newTarget |-> newTarget, message |-> message, cause |-> cause,
     step |-> step, self |-> self, raw |-> Undefined, before |-> before]
Depth == Len(building)
Innermost == building[Depth]
Advance(frame) == [building EXCEPT ![Depth] = frame]
Leave == SubSeq(building, 1, Depth - 1)
InProgress(e) == \E i \in 1..Depth : building[i].e = e

\* new C(...) begins: the subclass constructor is entered and stands before
\* its super(message, cause) call, whose arguments are not evaluated yet.
\* Another construction may be in progress: this one is nested in it (in
\* the argument list of its super call, or in code the host calls back
\* between two of its statements) and runs to its end before the outer one
\* goes on.
Begin(e, classes, messages) ==
    /\ ~InProgress(e)
    /\ \E newTarget \in classes, message \in messages :
        /\ building' = Append(building,
                Frame(e, newTarget, message, Undefined, "super", NoEntity,
                      stackTraceLimit))
        /\ ret' = Call("begin", e, <<Class(newTarget), Str(message)>>,
                       Return(Undefined))
    /\ UNCHANGED <<host, stackTraceLimit, clock, ent, lastWrite, kept>>

\* super(message, cause) and the field initialisers (lines 63, 42, 45): the
\* cause is one of the given values or an entity constructed by now.
StepSuper(causes, ticks) ==
    /\ Depth > 0
    /\ Innermost.step = "super"
    /\ \E cause \in causes \cup {This(x) : x \in {y \in DOMAIN ent : ent[y] # NoEntity}},
          tick \in ticks :
        /\ clock + tick <= ClockStart + MaxElapsed
        /\ clock' = clock + tick
        /\ building' = Advance(
                [Innermost EXCEPT
                    !.cause = cause,
                    !.step = "name",
                    !.self = superAndFields(Innermost.newTarget, Innermost.message,
                                            host, clock, clock + tick)])
    /\ UNCHANGED <<host, stackTraceLimit, ent, ret, lastWrite, kept>>

\* this.name = this.constructor.name (line 66)
StepName ==
    /\ Depth > 0
    /\ Innermost.step = "name"
    /\ building' = Advance([Innermost EXCEPT !.step = "cause",
                                             !.self = inferName(@)])
    /\ UNCHANGED <<host, stackTraceLimit, clock, ent, ret, lastWrite, kept>>

\* if (cause !== undefined) this.#setCause(cause) (lines 69-71); a throw ends
\* the construction.
StepCause ==
    /\ Depth > 0
    /\ Innermost.step = "cause"
    /\ \E caused \in {attachCause(Innermost.self, host, Innermost.cause)} :
        IF caused.threw
        THEN /\ building' = Leave
             /\ ret' = Call("new", Innermost.e,
                            <<Class(Innermost.newTarget), Str(Innermost.message),
                              Innermost.cause>>,
                            Throw(Str("TypeError")))
        ELSE /\ building' = Advance([Innermost EXCEPT !.step = "link",
                                                      !.self = caused.self])
             /\ ret' = ret
    /\ UNCHANGED <<host, stackTraceLimit, clock, ent, lastWrite, kept>>

\* Object.setPrototypeOf(this, new.target.prototype) (line 74)
StepLink ==
    /\ Depth > 0
    /\ Innermost.step = "link"
    /\ building' = Advance(
            [Innermost EXCEPT !.step = "capture",
                              !.self = setPrototypeOf(@, Innermost.newTarget)])
    /\ UNCHANGED <<host, stackTraceLimit, clock, ent, ret, lastWrite, kept>>

\* The first half of a capture that raises the host's depth for its own
\* trace, to put the old value back once the trace is filtered.
StepCaptureRaisingLimit ==
    /\ Depth > 0
    /\ Innermost.step = "capture"
    /\ stackTraceLimit' = RaisedStackTraceLimit
    /\ building' = Advance(
            [Innermost EXCEPT
                !.step = "filter",
                !.raw = IF host.captureStackTrace
                        THEN HostCaptureStackTrace(Innermost.self, RaisedStackTraceLimit)
                        ELSE IF host.thrownStack
                        THEN HostThrownStack(Innermost.self, RaisedStackTraceLimit)
                        ELSE Undefined])
    /\ UNCHANGED <<host, clock, ent, ret, lastWrite, kept>>

\* #captureStack, its first half (lines 298-310): the host takes the raw
\* trace, by Error.captureStackTrace or on a thrown `new Error()`, with the
\* depth Error.stackTraceLimit has at that moment.
StepCapture ==
    /\ Depth > 0
    /\ Innermost.step = "capture"
    /\ building' = Advance(
            [Innermost EXCEPT
                !.step = "filter",
                !.raw = IF host.captureStackTrace
                        THEN HostCaptureStackTrace(Innermost.self, stackTraceLimit)
                        ELSE IF host.thrownStack
                        THEN HostThrownStack(Innermost.self, stackTraceLimit)
                        ELSE Undefined])
    /\ UNCHANGED <<host, stackTraceLimit, clock, ent, ret, lastWrite, kept>>

\* #captureStack, its second half (lines 301, 312-317), the assignment of
\* line 77 and the return of the constructor: the new object is bound to e.
StepFilter ==
    /\ Depth > 0
    /\ Innermost.step = "filter"
    /\ \E stack \in {IF ~host.captureStackTrace /\ ~Truthy(Innermost.raw)
                      THEN Undefined
                      ELSE filterInternalFrames(Innermost.self, Innermost.raw)} :
        ent' = Store(ent, Innermost.e, [Innermost.self EXCEPT !.stack = stack])
    /\ lastWrite' = [lastWrite EXCEPT ![Innermost.e] = EmptyMap]
    /\ ret' = Call("new", Innermost.e,
                   <<Class(Innermost.newTarget), Str(Innermost.message),
                     Innermost.cause>>,
                   Return(This(Innermost.e)))
    /\ building' = Leave
    /\ UNCHANGED <<host, stackTraceLimit, clock, kept>>

\* new C(message, cause) for a subclass C whose constructor calls the base
\* constructor in the explicit-name form, super(name, message, cause), with
\* its own name as name (test line 17, README line 38).  The base constructor
\* (line 61) takes its parameters by position: the first argument as message,
\* the second as cause.
ConstructExplicitName(e, classes, messages, causes) ==
    \E newTarget \in classes, message \in messages, cause \in causes :
        \E made \in {constructor(newTarget, ConstructorName(newTarget), Str(message),
                                  host, clock, clock, stackTraceLimit)} :
           /\ stackTraceLimit' = made.stackTraceLimit
           /\ ent' = IF made.threw THEN ent ELSE [ent EXCEPT ![e] = made.self]
           /\ lastWrite' = IF made.threw THEN lastWrite
                           ELSE [lastWrite EXCEPT ![e] = EmptyMap]
           /\ ret' = Call("new (explicit name)", e,
                          <<Class(newTarget), Str(ConstructorName(newTarget)),
                            Str(message), cause>>,
                          IF made.threw THEN Throw(Str("TypeError"))
                          ELSE Return(This(e)))
           /\ UNCHANGED <<host, clock, kept, building>>

\* e.cause = value, by the code that holds e: the property is writable
\* (line 202), and an entity built without a cause takes a new property.
AssignCause(e, values) ==
    /\ ent[e] # NoEntity
    /\ \E cause \in values :
        /\ ent' = [ent EXCEPT ![e].cause =
                        IF @ = NoProperty THEN Property(cause, TRUE)
                        ELSE [@ EXCEPT !.value = cause]]
        /\ ret' = Call("cause =", e, <<cause>>, Return(cause))
    /\ UNCHANGED <<host, stackTraceLimit, clock, lastWrite, kept, building>>

\* e.withUserMessage(message)
WithUserMessage(e, texts) ==
    /\ ent[e] # NoEntity
    /\ \E message \in texts :
        LET r == withUserMessage(e, ent[e], message)
        IN /\ ent' = Store(ent, e, r.self)
           /\ ret' = Call("withUserMessage", e, <<Str(message)>>, r.out)
    /\ UNCHANGED <<host, stackTraceLimit, clock, lastWrite, kept, building>>

\* e.addLocalizedMessage(lang, message)
AddLocalizedMessage(e, langs, texts) ==
    /\ ent[e] # NoEntity
    /\ \E lang \in langs, message \in texts :
        LET r == addLocalizedMessage(e, ent[e], lang, message)
        IN /\ ent' = Store(ent, e, r.self)
           /\ ret' = Call("addLocalizedMessage", e, <<Str(lang), Str(message)>>, r.out)
           /\ lastWrite' = IF r.out.kind = "return"
                           THEN [lastWrite EXCEPT ![e] = MapSet(@, lang, message)]
                           ELSE lastWrite
    /\ UNCHANGED <<host, stackTraceLimit, clock, kept, building>>

\* e.updateLocalizedMessage(lang, message)
UpdateLocalizedMessage(e, langs, texts) ==
    /\ ent[e] # NoEntity
    /\ \E lang \in langs, message \in texts :
        LET r == updateLocalizedMessage(e, ent[e], lang, message)
        IN /\ ent' = Store(ent, e, r.self)
           /\ ret' = Call("updateLocalizedMessage", e, <<Str(lang), Str(message)>>,
                          r.out)
           /\ lastWrite' = IF r.out.kind = "return"
                           THEN [lastWrite EXCEPT ![e] = MapSet(@, lang, message)]
                           ELSE lastWrite
    /\ UNCHANGED <<host, stackTraceLimit, clock, kept, building>>

\* e.getUserMessage(options)
GetUserMessage(e, langs) ==
    /\ ent[e] # NoEntity
    /\ \E options \in Options(langs) :
        LET r == getUserMessage(ent[e], options)
        IN /\ ent' = Store(ent, e, r.self)
           /\ ret' = Call("getUserMessage", e, <<options>>, r.out)
    /\ UNCHANGED <<host, stackTraceLimit, clock, lastWrite, kept, building>>

\* e.toJSON()
ToJSON(e) ==
    /\ ent[e] # NoEntity
    /\ \E r \in {toJSON(ent, ent[e])} :
        /\ ent' = Store(ent, e, r.self)
        /\ ret' = Call("toJSON", e, <<>>, r.out)
    /\ UNCHANGED <<host, stackTraceLimit, clock, lastWrite, kept, building>>

\* const record = e.toJSON(): the caller keeps the record it was given.
KeepRecord(e) ==
    /\ ent[e] # NoEntity
    /\ \E r \in {toJSON(ent, ent[e])} :
        /\ r.out.kind = "return"
        /\ ent' = Store(ent, e, r.self)
        /\ ret' = Call("toJSON", e, <<>>, r.out)
        /\ kept' = [t |-> "kept", of |-> e, record |-> r.out.val]
    /\ UNCHANGED <<host, stackTraceLimit, clock, lastWrite, building>>

\* record.localizedMessages[lang] = message, by the caller that kept the
\* record: the write lands in the object the record holds, which is the
\* entity's Map only if that is what toJSON handed out.
WriteRecord(langs, texts) ==
    /\ kept # NoRecord
    /\ kept.record.localizedMessages # Absent
    /\ \E lang \in langs, message \in texts :
        /\ IF kept.record.localizedMessages = ThisLocalizedMessages
           THEN /\ ent' = Store(ent, kept.of,
                            [ent[kept.of] EXCEPT !.localizedMessages =
                                MapSet(@, lang, message)])
                /\ kept' = kept
           ELSE /\ ent' = ent
                /\ kept' = [kept EXCEPT !.record.localizedMessages.entries =
                                MapSet(@, lang, message)]
        /\ ret' = Call("record write", kept.of, <<Str(lang), Str(message)>>,
                       Return(Str(message)))
    /\ UNCHANGED <<host, stackTraceLimit, clock, lastWrite, building>>

\* e.toString()
ToString(e) ==
    /\ ent[e] # NoEntity
    /\ \E r \in {toString(ent, ent[e], 1)} :
        /\ ent' = Store(ent, e, r.self)
        /\ ret' = Call("toString", e, <<>>, r.out)
    /\ UNCHANGED <<host, stackTraceLimit, clock, lastWrite, kept, building>>

\* ---------------------------------------------------------- specifications
InitOf(entities, hosts, limits) ==
    /\ host \in hosts
    /\ stackTraceLimit \in limits
    /\ clock = ClockStart
    /\ ent = [e \in entities |-> NoEntity]
    /\ ret = NoCall
    /\ lastWrite = [e \in entities |-> EmptyMap]
    /\ kept = NoRecord
    /\ building = <<>>

InitOn(hosts, limits) == InitOf(Entities, hosts, limits)

\* The operations of one entity in a modern host: every language tag and
\* text, one class and the causes of FewCauses, the clock standing still
\* while the constructor runs.
Init == InitOn({ModernHost}, {10})

Next ==
    \E e \in Entities :
        \/ Construct(e, {UserNotFoundErrorCtor}, Messages, FewCauses, {0})
        \/ WithUserMessage(e, UserTexts)
        \/ AddLocalizedMessage(e, Langs, Texts)
        \/ UpdateLocalizedMessage(e, Langs, Texts)
        \/ GetUserMessage(e, Langs)
        \/ ToJSON(e)
        \/ ToString(e)

Spec == Init /\ [][Next]_vars

\* Construction in every host, of every class, with every cause, the clock
\* free to advance between two reads.
InitHosts == InitOn(Hosts, {1, 10})

NextHosts == \E e \in Entities : Construct(e, Constructable, Messages, Causes, 0..MaxTick)

SpecHosts == InitHosts /\ [][NextHosts]_vars

\* Serialisation in a modern host of an entity with every kind of cause,
\* built in either form of the constructor call, its cause re-assigned.
NextCauses ==
    \E e \in Entities :
        \/ Construct(e, {UserNotFoundErrorCtor}, Messages, RichCauses, {0})
        \/ ConstructExplicitName(e, {UserNotFoundErrorCtor}, Messages, FewCauses)
        \/ AssignCause(e, CyclicCauses(e))
        \/ AddLocalizedMessage(e, {"en"}, {"a"})
        \/ ToJSON(e)
        \/ ToString(e)

SpecCauses == Init /\ [][NextCauses]_vars

\* Two entities side by side in a modern host, each annotated, resolved and
\* serialised on its own.
Pair == {"e1", "e2"}
InitPair == InitOf(Pair, {ModernHost}, {10})

NextPair ==
    \E e \in Pair :
        \/ Construct(e, {UserNotFoundErrorCtor}, Messages, FewCauses, {0})
        \/ WithUserMessage(e, {"D"})
        \/ AddLocalizedMessage(e, {"en"}, Texts)
        \/ UpdateLocalizedMessage(e, {"en"}, {"b"})
        \/ GetUserMessage(e, {"en"})
        \/ ToJSON(e)
        \/ ToString(e)

SpecPair == InitPair /\ [][NextPair]_vars

\* An entity and a caller that keeps a record toJSON returned and writes
\* into it, while the entity goes on being annotated and observed.
NextRecord ==
    \/ \E e \in Entities :
        \/ Construct(e, {UserNotFoundErrorCtor}, Messages, {Undefined}, {0})
        \/ AddLocalizedMessage(e, {"en", "en-US"}, {"a"})
        \/ UpdateLocalizedMessage(e, {"en"}, {"b"})
        \/ GetUserMessage(e, {"en"})
        \/ ToJSON(e)
        \/ KeepRecord(e)
    \/ WriteRecord({"en"}, {"c"})

SpecRecord == Init /\ [][NextRecord]_vars

\* Constructions statement by statement, one nested in another, in the hosts
\* that differ in how a stack is captured.
CaptureHosts == {h \in Hosts : h.defineProperty /\ h.nativeCause /\ h.nativeClasses}
InitSteps == InitOf(Pair, CaptureHosts, {1, 10})

NextSteps ==
    \/ \E e \in Pair : Begin(e, {UserNotFoundErrorCtor}, Messages)
    \/ StepSuper({Undefined}, {0})
    \/ StepName
    \/ StepCause
    \/ StepLink
    \/ StepCapture
    \/ StepFilter

SpecSteps == InitSteps /\ [][NextSteps]_vars

\* Stack capture in every host, of every class, for every message.
NextTrace ==
    \E e \in Entities : Construct(e, Constructable, AllMessages, {Undefined}, {0})

SpecTrace == InitHosts /\ [][NextTrace]_vars

\* ------------------------------------------------------------------ claims
Constructed(e) == ent[e] # NoEntity

\* C1: addLocalizedMessage(lang, text) on an entity that already has an entry
\* for lang throws the DuplicateLocalization error and changes nothing: every
\* field of the entity, the entry for lang included, is as before, and
\* getUserMessage answers every options argument as before.
C1_DuplicateAddChangesNothing ==
    [][\A e \in Entities :
        (/\ ret'.op = "addLocalizedMessage"
         /\ ret'.id = e
         /\ Constructed(e)
         /\ MapHas(ent[e].localizedMessages, ret'.args[1].v))
        => /\ ret'.kind = "throw"
           /\ ret'.val = DuplicateLocalization(ret'.args[1].v)
           /\ ent'[e] = ent[e]
           /\ \A options \in Options(Langs) :
                getUserMessage(ent'[e], options).out
                    = getUserMessage(ent[e], options).out
      ]_vars

\* C1 witness: a duplicate add has just failed, and the text it offered is
\* not the text the entity holds for that language.
C1_Witness ==
    /\ ret.op = "addLocalizedMessage"
    /\ ret.kind = "throw"
    /\ ent[ret.id].localizedMessages[ret.args[1].v] # ret.args[2].v
    /\ ent[ret.id].defaultUserMessage # Undefined

\* C2: getUserMessage({preferredLang: L}) returns the text of the last
\* successful write to L (an addLocalizedMessage on an absent L, or any
\* updateLocalizedMessage).
C2_LastWriteIsResolved ==
    (/\ ret.op = "getUserMessage"
     /\ ret.args[1] # Undefined
     /\ ret.args[1].preferredLang # Undefined
     /\ ret.args[1].fallbackLang = Undefined
     /\ ret.args[1].preferredLang.v \in DOMAIN lastWrite[ret.id])
    => ret.val = Str(lastWrite[ret.id][ret.args[1].preferredLang.v])

\* The resolution the claim C3 describes: a language is used when it is given
\* (any string, the empty one included) and is a key of the map.
Given(lang) == lang # Undefined
Resolved(self, options) ==
    LET preferredLang == IF options = Undefined THEN Undefined
                         ELSE options.preferredLang
        fallbackLang == IF options = Undefined THEN Undefined
                        ELSE options.fallbackLang
    IN IF Given(preferredLang) /\ preferredLang.v \in DOMAIN self.localizedMessages
       THEN Str(self.localizedMessages[preferredLang.v])
       ELSE IF Given(fallbackLang) /\ fallbackLang.v \in DOMAIN self.localizedMessages
       THEN Str(self.localizedMessages[fallbackLang.v])
       ELSE self.defaultUserMessage

\* C3: for every entity state and every options argument, getUserMessage
\* returns the entry of preferredLang if it is given and a key, else the entry
\* of fallbackLang if it is given and a key, else the default user message,
\* else undefined.
C3_ResolutionOrder ==
    ret.op = "getUserMessage" => ret.val = Resolved(ent[ret.id], ret.args[1])

\* Date.parse of a string toISOString printed: the instant of its fields.
DateParse(iso) ==
    (((iso.day * 24 + iso.hour) * 60 + iso.minute) * 60 + iso.second) * 1000
        + iso.millisecond

\* C4: timestamp and timestampIso of every entity denote the same instant:
\* timestamp = Date.parse(timestampIso).
C4_SameInstant ==
    \A e \in Entities :
        Constructed(e) => ent[e].timestamp = DateParse(ent[e].timestampIso)

\* C5: a construction leaves Error.stackTraceLimit as it found it, on every
\* path of the stack capture, so after any number of constructions it has the
\* value it had before the first.
C5_StackTraceLimitKept == [][stackTraceLimit' = stackTraceLimit]_vars

\* C5 witness: entities were constructed in a host without
\* Error.captureStackTrace (the throwaway-error path was taken).
C5_Witness ==
    /\ ret.op = "new"
    /\ ret.kind = "return"
    /\ ~host.captureStackTrace
    /\ host.thrownStack
    /\ ent[ret.id].stack # Undefined
    /\ clock > ClockStart

\* C6: the name of an entity is the declared name of the class it was
\* constructed as (new.target), at every depth of the chain.
C6_NameOfMostDerived ==
    (ret.op = "new" /\ ret.kind = "return")
    => ent[ret.id].name = ConstructorName(ret.args[1].c)

\* The classes an instance of c must be recognised as.
AncestorsAndSelf(c) ==
    CASE c = TimeoutErrorCtor ->
            {TimeoutErrorCtor, NetworkErrorCtor, AppErrorCtor, BaseErrorCtor, ErrorCtor}
      [] c = NetworkErrorCtor -> {NetworkErrorCtor, AppErrorCtor, BaseErrorCtor, ErrorCtor}
      [] c = AppErrorCtor -> {AppErrorCtor, BaseErrorCtor, ErrorCtor}
      [] c = UserNotFoundErrorCtor -> {UserNotFoundErrorCtor, BaseErrorCtor, ErrorCtor}
      [] c = BaseErrorCtor -> {BaseErrorCtor, ErrorCtor}

\* C7: after construction the entity is linked to new.target, and instanceof
\* succeeds against new.target, every class between it and BaseError,
\* BaseError and Error.
C7_InstanceOfEveryAncestor ==
    (ret.op = "new" /\ ret.kind = "return")
    => /\ ent[ret.id].proto = ret.args[1].c
       /\ \A C \in AncestorsAndSelf(ret.args[1].c) : InstanceOf(ent[ret.id].proto, C)

\* C7 witness: a class three levels below BaseError was constructed in a
\* host whose super() returns an object linked to Error.prototype.
C7_Witness ==
    /\ ret.op = "new"
    /\ ret.kind = "return"
    /\ ret.args[1].c = TimeoutErrorCtor
    /\ ~host.nativeClasses

\* C8: a cause other than undefined is what the instance's cause property
\* holds after construction: defined non-enumerable, configurable and
\* writable where the host accepts Object.defineProperty, assigned where it
\* rejects it; without a cause the entity has no cause property.
C8_CauseAttached ==
    (ret.op = "new" /\ ret.kind = "return")
    => LET self == ent[ret.id]
           cause == ret.args[3]
       IN IF cause # Undefined
          THEN /\ self.cause # NoProperty
               /\ Cause(self) = cause
               /\ self.cause.configurable
               /\ self.cause.writable
               /\ self.cause.enumerable = ~host.defineProperty
          ELSE /\ self.cause = NoProperty
               /\ Cause(self) = Undefined

\* C8 witness: the cause null was attached by assignment, the host having
\* rejected Object.defineProperty.
C8_Witness ==
    /\ ret.op = "new"
    /\ ret.kind = "return"
    /\ ret.args[3] = Null
    /\ ~host.defineProperty
    /\ Cause(ent[ret.id]) = Null

\* C9: in every host a construction returns an entity and throws nothing,
\* and where no trace is obtainable the stack is undefined.
C9_ConstructionNeverThrows ==
    ret.op = "new"
    => /\ ret.kind = "return"
       /\ Constructed(ret.id)
       /\ (~host.captureStackTrace /\ ~host.thrownStack)
            => ent[ret.id].stack = Undefined

\* C9 witness: a construction with a cause succeeded in the host that lacks
\* every capability, and left the stack undefined.
C9_Witness ==
    /\ ret.op = "new"
    /\ ret.kind = "return"
    /\ ret.args[3] # Undefined
    /\ ~host.defineProperty
    /\ ~host.captureStackTrace
    /\ ~host.thrownStack
    /\ ~host.nativeCause
    /\ ent[ret.id].stack = Undefined
    /\ Cause(ent[ret.id]) = ret.args[3]

\* The fields fixed at construction.
Core(self) ==
    [name |-> self.name, message |-> self.message, timestamp |-> self.timestamp,
     timestampIso |-> self.timestampIso, stack |-> self.stack, cause |-> self.cause]

\* C10: no call of withUserMessage, addLocalizedMessage (failing or not),
\* updateLocalizedMessage, getUserMessage, toJSON or toString changes name,
\* message, timestamp, timestampIso, stack or cause of a constructed entity.
C10_CoreFieldsFixed ==
    [][\A e \in Entities :
        (Constructed(e) /\ ret'.op # "new") => Core(ent'[e]) = Core(ent[e])
      ]_vars

\* C10 witness: an entity with a cause and a stack has been annotated with a
\* default message and localized messages, and a duplicate add has failed.
C10_Witness ==
    /\ ret.op = "addLocalizedMessage"
    /\ ret.kind = "throw"
    /\ ent[ret.id].cause # NoProperty
    /\ ent[ret.id].stack # Undefined
    /\ ent[ret.id].defaultUserMessage = Str("D")
    /\ Cardinality(DOMAIN ent[ret.id].localizedMessages) > 1

\* C11: toJSON() has the key userMessage, holding the default user message,
\* exactly when a default user message was set, and the key localizedMessages,
\* holding the whole language-to-text mapping, exactly when the entity has at
\* least one localized entry; a key that is not due is left out.
C11_AnnexKeys ==
    (ret.op = "toJSON" /\ ret.kind = "return")
    => /\ ret.val.userMessage =
            (IF ent[ret.id].defaultUserMessage # Undefined
             THEN ent[ret.id].defaultUserMessage ELSE Absent)
       /\ ret.val.localizedMessages =
            (IF DOMAIN ent[ret.id].localizedMessages # {}
             THEN [t |-> "object", entries |-> ent[ret.id].localizedMessages]
             ELSE Absent)

\* The substrings that name the capture and filter routines.
RoutineNames ==
    {<<"#", "captureStack">>, <<"#", "filterInternalFrames">>,
     <<"captureStack", "_fn">>, <<"filterInternalFrames", "_fn">>}

\* C16: a stack that is present contains none of the substrings
\* '#captureStack', '#filterInternalFrames', 'captureStack_fn' and
\* 'filterInternalFrames_fn', whatever the host trace, name and message.
C16_NoRoutineNamesInStack ==
    \A e \in Entities :
        (Constructed(e) /\ ent[e].stack # Undefined)
        => \A i \in 1..Len(ent[e].stack.lines), marker \in RoutineNames :
             ~Includes(ent[e].stack.lines[i], marker)

\* The primitives and the two empty values.
IsScalar(v) == v.t \in {"undefined", "null", "string", "number", "NaN", "boolean"}

\* json is the record {name, message, stack, cause} of the Error cause, its
\* cause field being in turn the record of the next Error of the chain, down
\* to the last value, which, when it is a scalar, stands as it is.
RECURSIVE Mirrors(_, _)
Mirrors(json, cause) ==
    IF cause.t = "error"
    THEN /\ json.t = "object"
         /\ DOMAIN json = {"t", "name", "message", "stack", "cause"}
         /\ json.name = cause.name
         /\ json.message = cause.message
         /\ json.stack = cause.stack
         /\ Mirrors(json.cause, cause.cause)
    ELSE IsScalar(cause) => json = cause

RECURSIVE Acyclic(_)
Acyclic(v) ==
    IF v.t = "ref" THEN FALSE
    ELSE IF v.t = "obj"
    THEN ~v.toJSONThrows /\ \A i \in 1..Len(v.props) : Acyclic(v.props[i].v)
    ELSE TRUE
IsPlain(v) == v.t = "obj" /\ v.ctor \in {"Object", "Array"}

\* A value without the identities of its objects.
RECURSIVE ValueOf(_)
ValueOf(v) ==
    IF v.t = "obj"
    THEN [t |-> "obj", ctor |-> v.ctor,
          props |-> [i \in 1..Len(v.props) |->
                        Prop(v.props[i].k, ValueOf(v.props[i].v))]]
    ELSE v

\* C13: for a plain acyclic object (record or array) C given as cause,
\* toJSON().cause equals C by value and is another object than C.
C13_PlainObjectRoundTrip ==
    (/\ ret.op = "toJSON"
     /\ ret.kind = "return"
     /\ IsPlain(Cause(ent[ret.id]))
     /\ Acyclic(Cause(ent[ret.id])))
    => /\ ret.val.cause.t = "obj"
       /\ ValueOf(ret.val.cause) = ValueOf(Cause(ent[ret.id]))
       /\ ret.val.cause.ref # Cause(ent[ret.id]).ref

\* The summary the claim C14 describes for an object with n own keys.
Min(a, b) == IF a < b THEN a ELSE b
Summary(obj) ==
    LET n == Len(obj.props)
        names == [i \in 1..Min(5, n) |-> obj.props[i].k]
    IN "[Circular " \o (IF obj.ctor = NoConstructor THEN "Object" ELSE obj.ctor)
          \o (IF n = 0 THEN "" ELSE " with keys: [" \o JoinKeys(names) \o "]")
          \o (IF n > 5 THEN "..." ELSE "")
          \o "]"

\* C14: when the cause is an object whose JSON round trip fails, toJSON()
\* returns, and reports as cause the type name, the first min(5, n) of the n
\* own keys (no list when n = 0) and an ellipsis exactly when n > 5.
C14_CircularSummary ==
    (/\ ret.op = "toJSON"
     /\ Cause(ent[ret.id]).t = "obj"
     /\ ~Acyclic(Cause(ent[ret.id])))
    => /\ ret.kind = "return"
       /\ ret.val.cause = Str(Summary(Cause(ent[ret.id])))

\* C14 witness: toJSON() has summarised a circular object with more than
\* five keys.
C14_Witness ==
    /\ ret.op = "toJSON"
    /\ ret.kind = "return"
    /\ Cause(ent[ret.id]) = Circular("Object", MaxKeys)
    /\ ret.val.cause.t = "string"

\* C15: toString() returns "[<name>] <message>" when the entity has no
\* cause, and that text followed by "\nCaused by: <cause>", the cause in its
\* own textual form, when it has one.
C15_ToStringForm ==
    (ret.op = "toString" /\ ret.kind = "return")
    => LET self == ent[ret.id]
           head == "[" \o self.name \o "] " \o self.message
       IN ret.val =
            (IF Cause(self) = Undefined THEN Str(head)
             ELSE Str(head \o "\nCaused by: " \o ToStr(ent, Cause(self), 1).v))

\* The calls that annotate an entity.
Annotations == {"withUserMessage", "addLocalizedMessage", "updateLocalizedMessage"}

\* C17: a call of withUserMessage, addLocalizedMessage or
\* updateLocalizedMessage that succeeds returns the entity it was called on,
\* and it is that entity which holds the annotation afterwards.
C17_ReturnsThis ==
    [][\A e \in Entities :
        (ret'.op \in Annotations /\ ret'.kind = "return" /\ ret'.id = e)
        => /\ ret'.val = This(e)
           /\ (ret'.op = "withUserMessage"
                 => ent'[e].defaultUserMessage = ret'.args[1])
           /\ (ret'.op # "withUserMessage"
                 => MapGet(ent'[e].localizedMessages, ret'.args[1].v) = ret'.args[2])
      ]_vars

\* C17 witness: updateLocalizedMessage has returned on an entity that earlier
\* calls of the chain had given a default message and another language.
C17_Witness ==
    /\ ret.op = "updateLocalizedMessage"
    /\ ret.kind = "return"
    /\ ret.val = This(ret.id)
    /\ ent[ret.id].defaultUserMessage = Str("D")
    /\ Cardinality(DOMAIN ent[ret.id].localizedMessages) > 1

\* C18: toJSON() returns for every entity and every cause: the recursion
\* over the causes ends, also when the chain of Error causes is cyclic.
C18_ToJSONTerminates ==
    ret.op = "toJSON" => ret.kind = "return"

\* C19: the only error an operation raises is the DuplicateLocalization
\* error of addLocalizedMessage for a language that has an entry.
C19_OnlyDuplicateLocalization ==
    ret.kind = "throw"
    => /\ ret.op = "addLocalizedMessage"
       /\ ret.val = DuplicateLocalization(ret.args[1].v)

\* C20: an entity built by a subclass that calls the base constructor as
\* (name, message, cause) has the first argument as name, the second as
\* message and the third as cause; without a third argument it has no cause
\* and toString() has no "Caused by".
C20_ExplicitNameForm ==
    (ret.op = "new (explicit name)" /\ ret.kind = "return")
    => LET self == ent[ret.id]
       IN /\ self.name = ret.args[2].v
          /\ self.message = ret.args[3].v
          /\ Cause(self) = ret.args[4]
          /\ (ret.args[4] = Undefined
                => toString(ent, self, 1).out.val
                     = Str("[" \o ret.args[2].v \o "] " \o ret.args[3].v))

\* C21: toJSON() of an entity whose cause is an Error reports cause as the
\* string form "<name>: <message>" of that Error, with name, message,
\* timestamp and timestampIso those of the entity.
C21_ErrorCauseAsString ==
    (/\ ret.op = "toJSON"
     /\ ret.kind = "return"
     /\ Cause(ent[ret.id]).t = "error")
    => /\ ret.val.cause = ToStr(ent, Cause(ent[ret.id]), 1)
       /\ ret.val.name = ent[ret.id].name
       /\ ret.val.message = ent[ret.id].message
       /\ ret.val.timestamp = ent[ret.id].timestamp
       /\ ret.val.timestampIso = ent[ret.id].timestampIso

\* The trace the host gives the capture routine for entity self.
RawTrace(self) ==
    IF host.captureStackTrace THEN HostCaptureStackTrace(self, stackTraceLimit)
    ELSE IF host.thrownStack THEN HostThrownStack(self, stackTraceLimit)
    ELSE Undefined
\* The lines that match no internal-frame marker, in their order.
Unmarked(lines) == SelectSeq(lines, LAMBDA line : ~IsInternalFrame(line))

\* C23: the stack is the header "<name>: <message>" followed by exactly the
\* lines of the host's trace after its first that match no internal-frame
\* marker, in their order; without a host trace the stack is absent.
C23_FilteredTrace ==
    \A e \in Entities :
        Constructed(e)
        => LET self == ent[e]
               raw == RawTrace(self)
           IN IF raw = Undefined THEN self.stack = Undefined
              ELSE self.stack =
                     Text(<<<<self.name, ": ">> \o Atoms(self.message)>>
                            \o Unmarked(Tail(raw.lines)))

\* C23 witness: a trace with the capture frame, four constructor frames and
\* the caller's frames was filtered: lines were dropped and lines were kept.
C23_Witness ==
    /\ ret.op = "new"
    /\ ret.kind = "return"
    /\ ret.args[1].c = TimeoutErrorCtor
    /\ ~host.captureStackTrace
    /\ ent[ret.id].stack # Undefined
    /\ Len(ent[ret.id].stack.lines) > 3
    /\ Len(ent[ret.id].stack.lines) < Len(RawTrace(ent[ret.id]).lines)

\* C24: the localized map of a new entity is empty, and no step on an entity
\* removes a language; the map changes only in a successful
\* addLocalizedMessage or an updateLocalizedMessage.
C24_LocalizedMapGrows ==
    [][\A e \in Entities :
        /\ (ret'.op = "new" /\ ret'.kind = "return" /\ ret'.id = e)
              => ent'[e].localizedMessages = EmptyMap
        /\ (Constructed(e) /\ ret'.op # "new")
              => /\ DOMAIN ent[e].localizedMessages
                        \subseteq DOMAIN ent'[e].localizedMessages
                 /\ ent'[e].localizedMessages # ent[e].localizedMessages
                        => /\ ret'.op \in {"addLocalizedMessage",
                                           "updateLocalizedMessage"}
                           /\ ret'.kind = "return"
      ]_vars

\* C24 witness: an update has overwritten one of three languages.
C24_Witness ==
    /\ ret.op = "updateLocalizedMessage"
    /\ Cardinality(DOMAIN ent[ret.id].localizedMessages) = 3
    /\ lastWrite[ret.id] = ent[ret.id].localizedMessages

\* The calls that only read an entity.
Observers == {"getUserMessage", "toJSON", "toString"}

\* C26: a call of getUserMessage, toJSON or toString leaves the default user
\* message and the localized map as they were, and a call that repeats the
\* call before it, with the same arguments, ends as that one did.
C26_ObserversArePure ==
    [][\A e \in Entities :
        (ret'.op \in Observers /\ ret'.id = e)
        => /\ ent'[e].defaultUserMessage = ent[e].defaultUserMessage
           /\ ent'[e].localizedMessages = ent[e].localizedMessages
           /\ (ret.op = ret'.op /\ ret.id = e /\ ret.args = ret'.args)
                => (ret'.kind = ret.kind /\ ret'.val = ret.val)
      ]_vars

\* C26 witness: getUserMessage has resolved a language on an entity that
\* also has a default user message and a second language.
C26_Witness ==
    /\ ret.op = "getUserMessage"
    /\ ret.val = Str("a")
    /\ ent[ret.id].defaultUserMessage = Str("D")
    /\ Cardinality(DOMAIN ent[ret.id].localizedMessages) = 2

\* C27: in every host the name of a constructed entity, and the first word
\* of the header of its stack, is the declared name of the class it was
\* constructed as.
C27_NameReadFromMostDerived ==
    \A e \in Entities :
        (ret.op = "new" /\ ret.kind = "return" /\ ret.id = e)
        => LET declared == ConstructorName(ret.args[1].c)
           IN /\ ent[e].name = declared
              /\ ent[e].stack # Undefined => ent[e].stack.lines[1][1] = declared

\* C28: for a scalar given as cause, the cause property, toJSON().cause and
\* toString() agree: each shows the value when it is not undefined (null, 0,
\* "" and false included) and none shows a cause when it is undefined.
C28_ViewsAgreeOnCause ==
    (ret.op = "new" /\ ret.kind = "return" /\ IsScalar(ret.args[3]))
    => LET self == ent[ret.id]
           cause == ret.args[3]
           head == "[" \o self.name \o "] " \o self.message
       IN /\ Cause(self) = cause
          /\ toJSON(ent, self).out.val.cause = cause
          /\ toString(ent, self, 1).out.val =
                Str(head \o (IF cause = Undefined THEN ""
                             ELSE "\nCaused by: " \o ToStr(ent, cause, 1).v))

\* C29: toJSON() has the key userMessage with value m exactly when
\* getUserMessage() without options returns m.
C29_UserMessageViewsAgree ==
    \A e \in Entities :
        Constructed(e)
        => LET m == getUserMessage(ent[e], Undefined).out.val
           IN toJSON(ent, ent[e]).out.val.userMessage
                = (IF m = Undefined THEN Absent ELSE m)

\* C25: a call on entity a leaves every other entity b as it was: b's
\* default user message, localized map, cause and core fields, and what
\* getUserMessage and toJSON answer for b.
C25_NoSharedState ==
    [][\A a \in DOMAIN ent, b \in DOMAIN ent :
        (a # b /\ ret'.id = a /\ ent[b] # NoEntity)
        => /\ ent'[b] = ent[b]
           /\ \A options \in Options({"en"}) :
                getUserMessage(ent'[b], options).out
                    = getUserMessage(ent[b], options).out
           /\ toJSON(ent', ent'[b]).out = toJSON(ent, ent[b]).out
      ]_vars

\* C25 witness: a duplicate add on e1 has failed, after annotations of e1,
\* while e2 holds another text for the language and no default message.
C25_Witness ==
    /\ DOMAIN ent = Pair
    /\ ret.op = "addLocalizedMessage"
    /\ ret.kind = "throw"
    /\ ret.id = "e1"
    /\ ent["e1"].defaultUserMessage = Str("D")
    /\ ent["e2"] # NoEntity
    /\ ent["e2"].defaultUserMessage = Undefined
    /\ "en" \in DOMAIN ent["e2"].localizedMessages
    /\ ent["e2"].localizedMessages # ent["e1"].localizedMessages

\* A record as its reader sees it: localizedMessages read through to its
\* entries.
Seen(heap, owner, record) ==
    IF record.localizedMessages = Absent THEN record
    ELSE [record EXCEPT !.localizedMessages =
            [t |-> "object", entries |-> EntriesOf(heap, owner, @)]]

\* C30: the record toJSON returned is a snapshot.  An addLocalizedMessage or
\* updateLocalizedMessage after it leaves the localizedMessages of the kept
\* record as they were, and a write into the kept record's localizedMessages
\* leaves what getUserMessage and a later toJSON return as they were.
C30_RecordIsSnapshot ==
    [][kept # NoRecord =>
        /\ (/\ ret'.op \in {"addLocalizedMessage", "updateLocalizedMessage"}
            /\ ret'.id = kept.of)
           => /\ kept' = kept
              /\ Seen(ent', kept.of, kept'.record) = Seen(ent, kept.of, kept.record)
        /\ ret'.op = "record write"
           => /\ \A options \in Options({"en"}) :
                    getUserMessage(ent'[kept.of], options).out
                        = getUserMessage(ent[kept.of], options).out
              /\ LET before == toJSON(ent, ent[kept.of]).out
                     after == toJSON(ent', ent'[kept.of]).out
                 IN /\ after.kind = before.kind
                    /\ Seen(ent', kept.of, after.val) = Seen(ent, kept.of, before.val)
      ]_vars

\* C30 witness: a record was kept, the entity took a language after that and
\* the caller wrote into the record; the two now differ in both.
C30_Witness ==
    /\ kept # NoRecord
    /\ ret.op = "record write"
    /\ kept.record.localizedMessages # Absent
    /\ "en-US" \in DOMAIN ent[kept.of].localizedMessages
    /\ "en-US" \notin DOMAIN kept.record.localizedMessages.entries
    /\ kept.record.localizedMessages.entries["en"] = "c"
    /\ ent[kept.of].localizedMessages["en"] # "c"

\* C22: at every statement of a construction in progress, nested ones
\* included, Error.stackTraceLimit is what it was when that construction
\* began.
C22_LimitKeptAtEveryStep ==
    \A i \in 1..Len(building) : stackTraceLimit = building[i].before

\* C22 witness: a construction nested in another has returned (it began
\* after the outer one and captured its stack through a thrown error) and
\* the outer one, its own raw trace taken, goes on.
C22_Witness ==
    /\ Len(building) = 1
    /\ building[1].step = "filter"
    /\ ret.op = "new"
    /\ ret.kind = "return"
    /\ ret.id # building[1].e
    /\ ~host.captureStackTrace
    /\ ent[ret.id].stack # Undefined

====
